---- MODULE Spec2Model ----
(***************************************************************************)
(* torch_utils.train: the checkpoint lifecycle of train() -- bootstrap,    *)
(* retention, the "last" alias, the "best" pointer, resume -- together     *)
(* with save_checkpoint / load_checkpoint, as one sequential process.      *)
(*                                                                         *)
(* The checkpoint directory is a map from file name to what the name       *)
(* holds: nothing, a regular file (a serialized checkpoint_dict, possibly  *)
(* only partly written) or a symbolic link.  The model's weights are       *)
(* abstracted to the number of training epochs applied to them, the random *)
(* generators to the number of draws consumed since the seed, losses to    *)
(* integers (tenths).                                                      *)
(***************************************************************************)
EXTENDS Integers, Sequences, FiniteSets, TLC

\* ------------------------------------------------------------------ bounds
MaxEpochs == 3
MaxInitStep == 2
MaxLimit == 2

\* draws one pass over the training / validation dataset consumes
TrainDraws == 2
ValDraws == 1

\* the losses a pass over a dataset can yield, in tenths
Losses == {1, 2}

Periods == {1, 2}

None == -1

NoDataset == {}

\* every step a numbered checkpoint can carry in the runs modelled
Steps == 0..(IF MaxEpochs > 5 \/ MaxInitStep > 5
             THEN (IF MaxEpochs > MaxInitStep THEN MaxEpochs ELSE MaxInitStep)
             ELSE 5)

\* ------------------------------------------------------------- file names
CkptName(k) == "checkpoint_" \o ToString(k) \o ".pth"

checkpoint_last_name == "checkpoint_last.pth"

checkpoint_best_path == "checkpoint_best.pth"

NoPath == "None"

Numbered == {CkptName(k) : k \in Steps}

FileNames == Numbered \cup {checkpoint_last_name, checkpoint_best_path}

\* CHECKPOINT_PATTERN: the name matches and int(m.groups()[0]) is its step
RegexMatch(name) == name \in Numbered

RegexStep(name) == CHOOSE k \in Steps : CkptName(k) = name

\* ------------------------------------------------------------- file system
Absent == [kind |-> "absent"]

RegularFile(d) == [kind |-> "file", data |-> d]

Symlink(t) == [kind |-> "link", target |-> t]

\* a checkpoint_dict as torch.save lays it down; complete = FALSE while the
\* bytes are only partly on disk
CheckpointDict(step, l, m, r, c) ==
    [step |-> step, loss |-> l, state_dict |-> m, rng_state |-> r, complete |-> c]

\* the regular file a path leads to, following one symbolic link
Resolve(d, p) == IF d[p].kind = "link" THEN d[p].target ELSE p

\* os.path.exists / os.path.isfile: follow links, FALSE on a dangling one
PathExists(d, p) == p \in FileNames /\ d[Resolve(d, p)].kind = "file"

\* the name is taken in the directory (os.symlink fails on it)
PathLExists(d, p) == d[p].kind # "absent"

\* os.listdir filtered by os.path.isfile
ListFiles(d) == {p \in FileNames : PathExists(d, p)}

\* the numbered checkpoints of a directory, ascending by step
RECURSIVE SortedByStep(_)
SortedByStep(S) ==
    IF S = {} THEN <<>>
    ELSE LET m == CHOOSE x \in S : \A y \in S : RegexStep(x) <= RegexStep(y)
         IN  <<m>> \o SortedByStep(S \ {m})

SeqToSet(s) == {s[i] : i \in 1..Len(s)}

Max(a, b) == IF a > b THEN a ELSE b

\* ------------------------------------------------------------------- state
VARIABLES
    args,                 \* the arguments train() was called with
    pc, retpc,            \* position in train(); where save_checkpoint returns to
    disk,                 \* <training_dir>/ckpts
    checkpoints_history, checkpoint_path, checkpoints_limit,
    epoch_offset, epoch, loss, checkpoint_best_data,
    model, rng,           \* the live weights and random generators
    saving,               \* the arguments of the save_checkpoint call in progress
    error,                \* the exception that aborted the run
    summaries,            \* <<writer, step>> of every summary emitted
    written,              \* steps of the numbered checkpoints written, in order
    existed,              \* steps of every numbered checkpoint the run has seen
    candidates,           \* <<step, loss>> offered to the best pointer: its seed, then each epoch's
    source,               \* where loss and the best pointer's loss come from
    initial,              \* the directory as the run found it
    run, reference,       \* which process this is; the generators it should resume with
    training,             \* model.training, the mode flag of the trained module
    call                  \* a call of one of the library's functions outside train()

vars == <<args, pc, retpc, disk, checkpoints_history, checkpoint_path,
          checkpoints_limit, epoch_offset, epoch, loss, checkpoint_best_data,
          model, rng, saving, error, summaries, written, existed, candidates,
          source, initial, run, reference, training, call>>

NoBest == <<None, None>>

NoSave == [path |-> NoPath, dict |-> CheckpointDict(None, None, None, None, FALSE),
           symlink_name |-> NoPath]

\* ------------------------------------------------------------------ inputs
\* a directory left by earlier runs: numbered checkpoints of the steps in S
\* (step k holds the weights after k epochs), the alias on the newest one,
\* and the best file when b is a <<step, loss>>
InitialDisk(S, l, b) ==
    [p \in FileNames |->
        IF RegexMatch(p) /\ RegexStep(p) \in S
            THEN RegularFile(CheckpointDict(RegexStep(p), l, RegexStep(p), RegexStep(p), TRUE))
        ELSE IF p = checkpoint_last_name /\ S # {}
            THEN Symlink(CkptName(CHOOSE k \in S : \A j \in S : j <= k))
        ELSE IF p = checkpoint_best_path /\ b # NoBest
            THEN RegularFile(CheckpointDict(b[1], b[2], b[1], b[1], TRUE))
        ELSE Absent]

InitSteps == 1..MaxInitStep

Limits == {None} \cup (0..MaxLimit)

TrainArgs(e, tr, va, lim, ps, pk, path) ==
    [epochs |-> e, train_dataset |-> tr, val_dataset |-> va,
     checkpoints_limit |-> lim, epochs_per_summary |-> ps,
     epochs_per_checkpoint |-> pk, checkpoint_path |-> path]

Begin(a, d, t, s) ==
    /\ args = a
    /\ disk = d
    /\ initial = d
    /\ pc = "start"
    /\ retpc = "start"
    /\ checkpoints_history = <<>>
    /\ checkpoint_path = a.checkpoint_path
    /\ checkpoints_limit = a.checkpoints_limit
    /\ epoch_offset = 0
    /\ epoch = 0
    /\ loss = -1
    /\ checkpoint_best_data = NoBest
    /\ model = 0
    /\ rng = 0
    /\ saving = NoSave
    /\ error = "none"
    /\ summaries = s
    /\ written = <<>>
    /\ existed = {}
    /\ candidates = <<>>
    /\ source = [loss |-> "none", best |-> "none"]
    /\ run = 1
    /\ reference = None
    /\ training = t

\* no library function is being called beside train()
NoCall == [fn |-> "train"]

\* a freshly constructed module is in training mode and the summary
\* directory holds nothing
Start(a, d) == Begin(a, d, TRUE, {}) /\ call = NoCall

\* what an earlier run can have left in the summary directory
PriorSummaries == {{}, {<<"train", 1>>}}

\* a cold start over whatever an earlier run left behind
InitCold ==
    \E e \in 1..MaxEpochs, va \in {NoDataset, Losses}, lim \in Limits,
       ps \in Periods, pk \in Periods, S \in SUBSET InitSteps,
       t \in BOOLEAN, s \in PriorSummaries :
        /\ Begin(TrainArgs(e, Losses, va, lim, ps, pk, NoPath),
                 InitialDisk(S, 1, NoBest), t, s)
        /\ call = NoCall

\* a resume from one of the directory's numbered checkpoints or from the alias
InitResume ==
    \E e \in 1..MaxEpochs, va \in {NoDataset, Losses}, lim \in Limits,
       ps \in Periods, pk \in Periods, S \in (SUBSET InitSteps) \ {{}}, l \in Losses :
      \E b \in {NoBest} \cup (S \X Losses),
         path \in {CkptName(k) : k \in S} \cup {checkpoint_last_name} :
        Start(TrainArgs(e, Losses, va, lim, ps, pk, path), InitialDisk(S, l, b))

\* section 8 of the design: the end-to-end scenario (losses 1.0, 0.5, 0.8)
\* and the tie-break example (losses 5.0, 3.0, 3.0, 4.0)
InitScenario ==
    \/ Start(TrainArgs(3, {3, 5, 8, 10}, NoDataset, 2, 1, 1, NoPath),
             InitialDisk({}, 1, NoBest))
    \/ \E va \in {NoDataset, {30, 40, 50, 60}} :
          Start(TrainArgs(4, {30, 40, 50, 60}, va, None, 1, 1, NoPath),
                InitialDisk({}, 1, NoBest))

\* a resume from a checkpoint that is not the newest of the directory, run
\* long enough for the retention limit to work through the history
InitOlderResume ==
    Start(TrainArgs(5, Losses, NoDataset, 3, 1, 1, CkptName(1)),
          InitialDisk({1, 2}, 1, NoBest))

Init == InitCold \/ InitResume \/ InitScenario \/ InitOlderResume

\* ------------------------------------------------------------ small steps
HasVal == args.val_dataset # NoDataset

Due(e, period) == e % period = 0

AcceptsStrict(best, l) == best[2] > l

\* lines 383 and 400: the acceptance rule of the best pointer
Accepts(best, l) == best[2] >= l

EvictsLate(h, lim) == lim # None /\ Len(h) > lim + 1

\* line 368: the history has outgrown the limit
Evicts(h, lim) == lim # None /\ Len(h) > lim

Copy2NoFollow(d, src, dst) == [d EXCEPT ![dst] = d[src]]

\* shutil.copy2(src, dst) of an existing src: dst holds what src leads to
Copy2(d, src, dst) == [d EXCEPT ![dst] = d[Resolve(d, src)]]

\* os.remove(p)
Remove(d, p) == [d EXCEPT ![p] = Absent]

\* lines 10-25: what save_checkpoint captures when it is called
Capture(step, l, m, r) == CheckpointDict(step, l, m, r, TRUE)

\* model.py lines 7-16: the module's mode when the with-block of evaluating
\* is left; the block itself runs in inference mode
EvaluatingNoRestore(istrain) == FALSE

evaluating(istrain) ==
    LET inside == FALSE                       \* net.eval()
    IN IF istrain THEN TRUE ELSE inside       \* finally: net.train()

Abort(e) ==
    /\ pc' = "crashed"
    /\ error' = e

\* ------------------------------------------------------- train: bootstrap
\* lines 170-171 and 198-232: clamp the limit, load the resume checkpoint
\* (load_checkpoint, lines 56-86), wipe the directory on a cold start, scan it
Bootstrap ==
    /\ pc = "start"
    /\ LET resume == args.checkpoint_path # NoPath
           dict == disk[Resolve(disk, args.checkpoint_path)].data
           d1 == IF resume THEN disk ELSE [p \in FileNames |-> Absent]
           found == {p \in ListFiles(d1) : RegexMatch(p)}
       IN
       /\ checkpoints_limit' = IF args.checkpoints_limit = None THEN None
                                ELSE Max(1, args.checkpoints_limit)
       /\ IF resume
            THEN /\ model' = dict.state_dict
                 /\ rng' = dict.rng_state
                 /\ epoch_offset' = dict.step
                 /\ epoch' = dict.step
                 /\ loss' = dict.loss
                 /\ source' = [source EXCEPT !.loss = "checkpoint"]
                 /\ UNCHANGED summaries
            ELSE /\ epoch_offset' = 0
                 /\ epoch' = 0
                 /\ loss' = -1
                 /\ summaries' = {}
                 /\ UNCHANGED <<model, rng, source>>
       /\ disk' = d1
       /\ checkpoints_history' = SortedByStep(found)
       /\ existed' = {RegexStep(p) : p \in found}
    /\ pc' = "limit"
    /\ UNCHANGED <<training, call, args, retpc, checkpoint_path, checkpoint_best_data,
                   saving, error, written, candidates, initial, run, reference>>

\* lines 236-240: the whole while loop; checkpoint_path is left on the last
\* file removed
MeetLimit ==
    /\ pc = "limit"
    /\ LET n == Len(checkpoints_history) - checkpoints_limit
       IN IF checkpoints_limit # None /\ n > 0
            THEN /\ checkpoint_path' = checkpoints_history[n]
                 /\ checkpoints_history' =
                        SubSeq(checkpoints_history, n + 1, Len(checkpoints_history))
                 /\ disk' = [p \in FileNames |->
                                IF \E i \in 1..n : checkpoints_history[i] = p
                                THEN Absent ELSE disk[p]]
            ELSE UNCHANGED <<checkpoint_path, checkpoints_history, disk>>
    /\ pc' = IF checkpoint_path' # NoPath THEN "seed_best" ELSE "baseline"
    /\ UNCHANGED <<training, call, args, retpc, checkpoints_limit, epoch_offset, epoch, loss,
                   checkpoint_best_data, model, rng, saving, error, summaries,
                   written, existed, candidates, source, initial, run, reference>>

\* lines 255-262: the best pointer of a resumed run
SeedBest ==
    /\ pc = "seed_best"
    /\ IF PathExists(disk, checkpoint_best_path)
         THEN LET dict == disk[Resolve(disk, checkpoint_best_path)].data
              IN /\ checkpoint_best_data' = <<dict.step, dict.loss>>
                 /\ candidates' = <<(<<dict.step, dict.loss>>)>>
                 /\ source' = [source EXCEPT !.best = "checkpoint"]
                 /\ pc' = "loop"
                 /\ UNCHANGED <<disk, error>>
         ELSE /\ checkpoint_best_data' = <<epoch_offset, loss>>
              /\ candidates' = <<(<<epoch_offset, loss>>)>>
              /\ source' = [source EXCEPT !.best = source.loss]
              /\ IF PathExists(disk, checkpoint_path)
                   THEN /\ disk' = Copy2(disk, checkpoint_path, checkpoint_best_path)
                        /\ pc' = "loop"
                        /\ UNCHANGED error
                   ELSE /\ Abort("FileNotFoundError")
                        /\ UNCHANGED disk
    /\ UNCHANGED <<training, call, args, retpc, checkpoints_history, checkpoint_path, checkpoints_limit,
                   epoch_offset, epoch, loss, model, rng, saving, summaries, written,
                   existed, initial, run, reference>>

\* lines 263-308: the epoch-0 pass of a cold start, up to the call that
\* saves checkpoint_0.pth
Baseline ==
    /\ pc = "baseline"
    /\ \E l \in args.train_dataset :
        LET r == rng + TrainDraws + (IF HasVal THEN ValDraws ELSE 0)
        IN /\ loss' = l
           /\ rng' = r
           /\ saving' = [path |-> CkptName(0), dict |-> Capture(0, l, model, r),
                         symlink_name |-> checkpoint_last_name]
    /\ source' = [source EXCEPT !.loss = "train"]
    /\ summaries' = summaries \cup {<<"train", epoch_offset>>}
                       \cup (IF HasVal THEN {<<"valid", epoch_offset>>} ELSE {})
    /\ checkpoints_history' = Append(checkpoints_history, CkptName(0))
    /\ checkpoint_path' = CkptName(0)
    /\ existed' = existed \cup {0}
    /\ training' = evaluating(training)
    /\ pc' = "save_open"
    /\ retpc' = "zero_best"
    /\ UNCHANGED <<call, args, disk, checkpoints_limit, epoch_offset, epoch,
                   checkpoint_best_data, model, error, written, candidates,
                   initial, run, reference>>

\* lines 310-311
ZeroBest ==
    /\ pc = "zero_best"
    /\ checkpoint_best_data' = <<0, loss>>
    /\ candidates' = <<(<<0, loss>>)>>
    /\ source' = [source EXCEPT !.best = source.loss]
    /\ disk' = Copy2(disk, checkpoint_path, checkpoint_best_path)
    /\ pc' = "loop"
    /\ UNCHANGED <<training, call, args, retpc, checkpoints_history, checkpoint_path, checkpoints_limit,
                   epoch_offset, epoch, loss, model, rng, saving, error, summaries,
                   written, existed, initial, run, reference>>

\* --------------------------------------------------------- save_checkpoint
InSave == pc \in {"save_open", "save_write", "alias_unlink", "alias_symlink"}

\* line 34, first half: torch.save opens checkpoint_path for writing; the
\* name now holds a file whose bytes are not all there
TorchSaveOpen ==
    /\ pc = "save_open"
    /\ disk' = [disk EXCEPT ![saving.path] =
                    RegularFile([saving.dict EXCEPT !.complete = FALSE])]
    /\ pc' = "save_write"
    /\ UNCHANGED <<training, call, args, retpc, checkpoints_history, checkpoint_path, checkpoints_limit,
                   epoch_offset, epoch, loss, checkpoint_best_data, model, rng, saving,
                   error, summaries, written, existed, candidates, source, initial,
                   run, reference>>

\* line 34, second half: the bytes are written and the file closed
TorchSaveWrite ==
    /\ pc = "save_write"
    /\ disk' = [disk EXCEPT ![saving.path] = RegularFile(saving.dict)]
    /\ written' = IF RegexMatch(saving.path)
                  THEN Append(written, saving.dict.step) ELSE written
    /\ pc' = IF saving.symlink_name # NoPath THEN "alias_unlink" ELSE retpc
    /\ UNCHANGED <<training, call, args, retpc, checkpoints_history, checkpoint_path, checkpoints_limit,
                   epoch_offset, epoch, loss, checkpoint_best_data, model, rng, saving,
                   error, summaries, existed, candidates, source, initial, run,
                   reference>>

\* lines 41-42: os.path.exists follows the link, so a dangling alias stays
AliasUnlink ==
    /\ pc = "alias_unlink"
    /\ disk' = IF PathExists(disk, saving.symlink_name)
               THEN Remove(disk, saving.symlink_name) ELSE disk
    /\ pc' = "alias_symlink"
    /\ UNCHANGED <<training, call, args, retpc, checkpoints_history, checkpoint_path, checkpoints_limit,
                   epoch_offset, epoch, loss, checkpoint_best_data, model, rng, saving,
                   error, summaries, written, existed, candidates, source, initial,
                   run, reference>>

\* line 44: os.symlink raises when the name is taken
AliasSymlink ==
    /\ pc = "alias_symlink"
    /\ IF PathLExists(disk, saving.symlink_name)
         THEN /\ Abort("FileExistsError")
              /\ UNCHANGED disk
         ELSE /\ disk' = [disk EXCEPT ![saving.symlink_name] = Symlink(saving.path)]
              /\ pc' = retpc
              /\ UNCHANGED error
    /\ UNCHANGED <<training, call, args, retpc, checkpoints_history, checkpoint_path, checkpoints_limit,
                   epoch_offset, epoch, loss, checkpoint_best_data, model, rng, saving,
                   summaries, written, existed, candidates, source, initial, run,
                   reference>>

\* the process is terminated while it is inside save_checkpoint
Interrupt ==
    /\ InSave
    /\ pc' = "killed"
    /\ UNCHANGED <<training, call, args, retpc, disk, checkpoints_history, checkpoint_path,
                   checkpoints_limit, epoch_offset, epoch, loss, checkpoint_best_data,
                   model, rng, saving, error, summaries, written, existed, candidates,
                   source, initial, run, reference>>

\* ------------------------------------------------------ train: epoch loop
\* lines 316-359: one pass over the training dataset
TrainEpoch ==
    /\ pc = "loop"
    /\ epoch < args.epochs
    /\ \E l \in args.train_dataset : loss' = l
    /\ source' = [source EXCEPT !.loss = "train"]
    /\ epoch' = epoch + 1
    /\ model' = model + 1
    /\ rng' = rng + TrainDraws
    /\ training' = TRUE
    /\ pc' = "summary"
    /\ UNCHANGED <<call, args, retpc, disk, checkpoints_history, checkpoint_path,
                   checkpoints_limit, epoch_offset, checkpoint_best_data, saving, error,
                   summaries, written, existed, candidates, initial, run, reference>>

\* lines 362-364
TrainSummary ==
    /\ pc = "summary"
    /\ summaries' = IF Due(epoch, args.epochs_per_summary)
                    THEN summaries \cup {<<"train", epoch>>} ELSE summaries
    /\ pc' = "checkpoint"
    /\ UNCHANGED <<training, call, args, retpc, disk, checkpoints_history, checkpoint_path,
                   checkpoints_limit, epoch_offset, epoch, loss, checkpoint_best_data,
                   model, rng, saving, error, written, existed, candidates, source,
                   initial, run, reference>>

\* lines 366-381: append, evict the oldest entry, call save_checkpoint
CheckpointDue ==
    /\ pc = "checkpoint"
    /\ IF ~Due(epoch, args.epochs_per_checkpoint)
         THEN /\ pc' = "validate"
              /\ UNCHANGED <<checkpoints_history, checkpoint_path, disk, saving, retpc,
                             error, existed>>
         ELSE LET h1 == Append(checkpoints_history, CkptName(epoch))
                  evict == Evicts(h1, checkpoints_limit)
                  h2 == IF evict THEN Tail(h1) ELSE h1
              IN /\ checkpoints_history' = h2
                 /\ existed' = existed \cup {epoch}
                 /\ IF evict /\ ~PathLExists(disk, h1[1])
                      THEN /\ checkpoint_path' = h1[1]
                           /\ Abort("FileNotFoundError")
                           /\ UNCHANGED <<disk, saving, retpc>>
                      ELSE /\ disk' = IF evict THEN Remove(disk, h1[1]) ELSE disk
                           /\ checkpoint_path' = h2[Len(h2)]
                           /\ saving' = [path |-> h2[Len(h2)],
                                         dict |-> Capture(epoch, loss, model, rng),
                                         symlink_name |-> checkpoint_last_name]
                           /\ pc' = "save_open"
                           /\ retpc' = "promote"
                           /\ UNCHANGED error
    /\ UNCHANGED <<training, call, args, checkpoints_limit, epoch_offset, epoch, loss,
                   checkpoint_best_data, model, rng, summaries, written, candidates,
                   source, initial, run, reference>>

\* lines 383-385
PromoteTrain ==
    /\ pc = "promote"
    /\ IF ~HasVal
         THEN /\ candidates' = Append(candidates, <<epoch, loss>>)
              /\ IF Accepts(checkpoint_best_data, loss)
                   THEN /\ checkpoint_best_data' = <<epoch, loss>>
                        /\ source' = [source EXCEPT !.best = source.loss]
                        /\ disk' = Copy2(disk, checkpoint_path, checkpoint_best_path)
                   ELSE UNCHANGED <<checkpoint_best_data, source, disk>>
         ELSE UNCHANGED <<candidates, checkpoint_best_data, source, disk>>
    /\ pc' = "validate"
    /\ UNCHANGED <<training, call, args, retpc, checkpoints_history, checkpoint_path, checkpoints_limit,
                   epoch_offset, epoch, loss, model, rng, saving, error, summaries,
                   written, existed, initial, run, reference>>

\* lines 387-409: the validation pass and the promotion it decides
Validate ==
    /\ pc = "validate"
    /\ IF HasVal /\ Due(epoch, args.epochs_per_summary)
         THEN \E l \in args.val_dataset :
              /\ loss' = l
              /\ source' = [loss |-> "valid",
                            best |-> IF Accepts(checkpoint_best_data, l)
                                     THEN "valid" ELSE source.best]
              /\ rng' = rng + ValDraws
              /\ summaries' = summaries \cup {<<"valid", epoch>>}
              /\ candidates' = Append(candidates, <<epoch, l>>)
              /\ IF Accepts(checkpoint_best_data, l)
                   THEN /\ checkpoint_best_data' = <<epoch, l>>
                        /\ saving' = [path |-> checkpoint_best_path,
                                      dict |-> Capture(epoch, l, model, rng + ValDraws),
                                      symlink_name |-> NoPath]
                        /\ pc' = "save_open"
                        /\ retpc' = "loop"
                   ELSE /\ pc' = "loop"
                        /\ UNCHANGED <<checkpoint_best_data, saving, retpc>>
         ELSE /\ pc' = "loop"
              /\ UNCHANGED <<loss, source, rng, summaries, candidates,
                             checkpoint_best_data, saving, retpc>>
    /\ UNCHANGED <<training, call, args, disk, checkpoints_history, checkpoint_path, checkpoints_limit,
                   epoch_offset, epoch, model, error, written, existed, initial, run,
                   reference>>

\* lines 410-411: range(epoch_offset, epochs) is exhausted
Finish ==
    /\ pc = "loop"
    /\ epoch >= args.epochs
    /\ pc' = "finished"
    /\ UNCHANGED <<training, call, args, retpc, disk, checkpoints_history, checkpoint_path,
                   checkpoints_limit, epoch_offset, epoch, loss, checkpoint_best_data,
                   model, rng, saving, error, summaries, written, existed, candidates,
                   source, initial, run, reference>>

Next ==
    \/ Bootstrap
    \/ MeetLimit
    \/ SeedBest
    \/ Baseline
    \/ ZeroBest
    \/ TorchSaveOpen
    \/ TorchSaveWrite
    \/ AliasUnlink
    \/ AliasSymlink
    \/ Interrupt
    \/ TrainEpoch
    \/ TrainSummary
    \/ CheckpointDue
    \/ PromoteTrain
    \/ Validate
    \/ Finish

Spec == Init /\ [][Next]_vars

\* ------------------------------------------------------- stop and resume
\* The cold-start process is stopped at an epoch boundary right after the
\* epoch's checkpoint was written, and train() is called again on the same
\* directory to resume from that checkpoint for one further epoch.  The new
\* process starts with fresh weights and generators; reference keeps the
\* generator state with which the stopped process would have gone on.
Restart ==
    /\ run = 1
    /\ ~(args.checkpoint_path # NoPath)
    /\ pc \in {"loop", "finished"}
    /\ written # <<>>
    /\ written[Len(written)] = epoch
    /\ epoch >= 1
    /\ args' = [args EXCEPT !.checkpoint_path = CkptName(epoch), !.epochs = epoch + 1]
    /\ initial' = disk
    /\ pc' = "start"
    /\ retpc' = "start"
    /\ checkpoints_history' = <<>>
    /\ checkpoint_path' = CkptName(epoch)
    /\ checkpoints_limit' = args.checkpoints_limit
    /\ epoch_offset' = 0
    /\ epoch' = 0
    /\ loss' = -1
    /\ checkpoint_best_data' = NoBest
    /\ model' = 0
    /\ rng' = 0
    /\ saving' = NoSave
    /\ summaries' = {}
    /\ written' = <<>>
    /\ existed' = {}
    /\ candidates' = <<>>
    /\ source' = [loss |-> "none", best |-> "none"]
    /\ run' = 2
    /\ reference' = rng
    /\ UNCHANGED <<disk, error, training, call>>

NextRestart == Next \/ Restart

SpecRestart == InitCold /\ [][NextRestart]_vars

\* ------------------------------------------------------------------------
\* save_checkpoint and load_checkpoint called on their own: a process with a
\* model, an optimizer, an amp scaler, extension modules and the random
\* generators saves a record, goes on working, and loads the record back
trainVars == <<args, pc, retpc, disk, checkpoints_history, checkpoint_path,
               checkpoints_limit, epoch_offset, epoch, loss, checkpoint_best_data,
               model, rng, saving, error, summaries, written, existed, candidates,
               source, initial, run, reference, training>>

\* train() is not running while a library function is examined
NoTrain == Begin(TrainArgs(1, Losses, NoDataset, None, 1, 1, NoPath),
                 [p \in FileNames |-> Absent], TRUE, {})

ExtKeys == {"ema", "sched"}

\* the (key, module) lists a caller can pass as extra_modules; no list at all
\* is treated by both functions as the empty list
ExtLists == {<<>>, <<"ema">>, <<"sched">>, <<"ema", "sched">>, <<"sched", "ema">>}

\* the state of every collaborator after p units of work; no two
\* collaborators ever hold the same state
Collaborators(p) ==
    [model |-> 10 + p, optimizer |-> 20 + p, amp |-> 30 + p,
     ext |-> [k \in ExtKeys |-> IF k = "ema" THEN 40 + p ELSE 50 + p],
     rng |-> [python |-> 60 + p, numpy |-> 70 + p, torch |-> 80 + p,
              torch_cuda |-> 90 + p]]

Advance(c) ==
    [model |-> c.model + 1, optimizer |-> c.optimizer + 1, amp |-> c.amp + 1,
     ext |-> [k \in ExtKeys |-> c.ext[k] + 1],
     rng |-> [python |-> c.rng.python + 1, numpy |-> c.rng.numpy + 1,
              torch |-> c.rng.torch + 1, torch_cuda |-> c.rng.torch_cuda + 1]]

\* train.py lines 10-32: the record save_checkpoint hands to torch.save; an
\* entry the record does not have is None, which is what dict.get answers
save_checkpoint(c, step, l, extra_modules, amp, cuda) ==
    [rng_state |-> [python |-> c.rng.python, numpy |-> c.rng.numpy,
                    torch |-> c.rng.torch,
                    torch_cuda |-> IF cuda THEN c.rng.torch_cuda ELSE None],
     state_dict |-> c.model,
     optimizer |-> c.optimizer,
     step |-> step,
     loss |-> l,
     ext |-> [k \in ExtKeys |-> IF k \in SeqToSet(extra_modules) THEN c.ext[k] ELSE None],
     amp |-> IF amp THEN c.amp ELSE None]

\* line 75: checkpoint_dict.get(f'ext.{key}')
ExtStateUnprefixed(dict, key) == None

ExtState(dict, key) == dict.ext[key]

\* line 76
RaisesAlways(strict, state) == state = None

Raises(strict, state) == strict /\ state = None

\* lines 73-78: the loop over extra_modules; it stops at the first raise
RECURSIVE LoadExtensions(_, _, _, _)
LoadExtensions(dict, ext, keys, strict) ==
    IF keys = <<>> THEN [ext |-> ext, status |-> "ok"]
    ELSE LET key == Head(keys)
             state == ExtState(dict, key)
         IN IF Raises(strict, state)
              THEN [ext |-> ext, status |-> "KeyError"]
              ELSE LoadExtensions(dict, [ext EXCEPT ![key] = state], Tail(keys), strict)

\* lines 58-86: the collaborators after the call and what the call answers
load_checkpoint(dict, c, req) ==
    LET rng1 == IF req.load_rnd_state
                  THEN [python |-> dict.rng_state.python,
                        numpy |-> dict.rng_state.numpy,
                        torch |-> dict.rng_state.torch,
                        torch_cuda |-> IF req.cuda /\ dict.rng_state.torch_cuda # None
                                         THEN dict.rng_state.torch_cuda
                                         ELSE c.rng.torch_cuda]
                  ELSE c.rng
        model1 == IF req.model THEN dict.state_dict ELSE c.model
        optimizer1 == IF req.optimizer THEN dict.optimizer ELSE c.optimizer
        exts == LoadExtensions(dict, c.ext, req.extra_modules, req.strict)
        raised == exts.status # "ok"
        amp1 == IF ~raised /\ req.amp /\ dict.amp # None THEN dict.amp ELSE c.amp
    IN [live |-> [model |-> model1, optimizer |-> optimizer1, amp |-> amp1,
                  ext |-> exts.ext, rng |-> rng1],
        result |-> IF raised THEN [status |-> exts.status, step |-> None, loss |-> None]
                   ELSE [status |-> "ok", step |-> dict.step, loss |-> dict.loss]]

NoRequest == [model |-> FALSE, optimizer |-> FALSE, extra_modules |-> <<>>,
              strict |-> FALSE, amp |-> FALSE, load_rnd_state |-> FALSE, cuda |-> FALSE]

NoResult == [status |-> "none", step |-> None, loss |-> None]

NoDict == save_checkpoint(Collaborators(0), None, None, <<>>, FALSE, FALSE)

\* units of work done before the save; the step the caller passes
MaxWork == 1

InitCheckpoint ==
    /\ NoTrain
    /\ \E p \in 0..MaxWork :
         call = [fn |-> "checkpoint", phase |-> "live", live |-> Collaborators(p),
                 file |-> NoDict, listed |-> <<>>, captured |-> Collaborators(p),
                 before |-> Collaborators(p), request |-> NoRequest,
                 result |-> NoResult, caller |-> "none"]

SaveCheckpoint ==
    /\ call.phase = "live"
    /\ \E step \in 0..MaxWork, l \in Losses, extra \in ExtLists, amp \in BOOLEAN, cuda \in BOOLEAN :
         call' = [call EXCEPT !.phase = "saved",
                              !.file = save_checkpoint(call.live, step, l, extra, amp, cuda),
                              !.listed = extra,
                              !.captured = call.live]
    /\ UNCHANGED trainVars

\* the process goes on: every collaborator leaves the state that was saved
Continue ==
    /\ call.phase = "saved"
    /\ call' = [call EXCEPT !.phase = "changed", !.live = Advance(call.live)]
    /\ UNCHANGED trainVars

Load(req, who) ==
    LET r == load_checkpoint(call.file, call.live, req)
    IN call' = [call EXCEPT !.phase = "loaded", !.before = call.live,
                            !.request = req, !.live = r.live, !.result = r.result,
                            !.caller = who]

LoadCheckpoint ==
    /\ call.phase = "changed"
    /\ \E m \in BOOLEAN, o \in BOOLEAN, extra \in ExtLists, strict \in BOOLEAN,
          amp \in BOOLEAN, rnd \in BOOLEAN, cuda \in BOOLEAN :
         Load([model |-> m, optimizer |-> o, extra_modules |-> extra,
               strict |-> strict, amp |-> amp, load_rnd_state |-> rnd,
               cuda |-> cuda], "caller")
    /\ UNCHANGED trainVars

\* train.py lines 198-201: the call train makes to resume; strict and
\* load_rnd_state are left at their defaults
TrainResume ==
    /\ call.phase = "changed"
    /\ \E checkpoint_extra_modules \in ExtLists, amp \in BOOLEAN, cuda \in BOOLEAN :
         Load([model |-> TRUE, optimizer |-> TRUE,
               extra_modules |-> checkpoint_extra_modules, strict |-> FALSE,
               amp |-> amp, load_rnd_state |-> TRUE, cuda |-> cuda], "train")
    /\ UNCHANGED trainVars

NextCheckpoint == SaveCheckpoint \/ Continue \/ LoadCheckpoint \/ TrainResume

SpecCheckpoint == InitCheckpoint /\ [][NextCheckpoint]_vars

\* ------------------------------------------------------------------------
\* default_summary_write (train.py lines 104-126) followed by the flush of
\* line 364, against a writer whose add_scalar raises for some labels
GroupKeys == {<<"lr">>, <<"lr", "momentum">>}

MaxGroups == 2

ParamGroups == UNION {[1..n -> GroupKeys] : n \in 1..MaxGroups}

MetricKeys == {<<"loss">>, <<"loss", "acc">>}

\* lines 112-115; enumerate counts from 0
Label(n_groups, i, k) ==
    IF n_groups = 1 THEN "optimizer/" \o k
    ELSE "optimizer/" \o ToString(i) \o "/" \o k

\* lines 109-111: the scalars of the groups from the i-th on, in loop order
RECURSIVE OptimizerScalars(_, _)
OptimizerScalars(param_groups, i) ==
    IF i >= Len(param_groups) THEN <<>>
    ELSE [j \in 1..Len(param_groups[i + 1]) |->
             [label |-> Label(Len(param_groups), i, param_groups[i + 1][j]),
              kind |-> "optimizer"]]
         \o OptimizerScalars(param_groups, i + 1)

\* line 122
MetricScalars(metrics) ==
    [j \in 1..Len(metrics) |-> [label |-> metrics[j], kind |-> "metric"]]

Scalars(param_groups, metrics) ==
    OptimizerScalars(param_groups, 0) \o MetricScalars(metrics)

LabelsOf(q) == {q[j].label : j \in 1..Len(q)}

\* lines 119-120 and 125-126: except Exception: pass
SuppressedForMetrics(kind) == kind = "metric"

Suppressed(kind) == kind \in {"optimizer", "metric"}

InitSummary ==
    /\ NoTrain
    /\ \E param_groups \in ParamGroups, metrics \in MetricKeys :
         \E fails \in SUBSET LabelsOf(Scalars(param_groups, metrics)) :
           call = [fn |-> "summary", at |-> "gradients",
                   param_groups |-> param_groups, metrics |-> metrics,
                   fails |-> fails, pending |-> <<>>, attempted |-> <<>>,
                   recorded |-> {}]

\* line 107: summary_utils.write_gradients writes no scalar
WriteGradients ==
    /\ call.fn = "summary"
    /\ call.at = "gradients"
    /\ call' = [call EXCEPT !.at = "scalars",
                            !.pending = Scalars(call.param_groups, call.metrics)]
    /\ UNCHANGED trainVars

\* lines 117-120 and 123-126: one pass of either loop body
AddScalar ==
    /\ call.fn = "summary"
    /\ call.at = "scalars"
    /\ call.pending # <<>>
    /\ LET s == Head(call.pending)
           tried == [call EXCEPT !.attempted = Append(call.attempted, s.label),
                                 !.pending = Tail(call.pending)]
       IN call' = IF s.label \notin call.fails
                    THEN [tried EXCEPT !.recorded = call.recorded \cup {s.label}]
                  ELSE IF Suppressed(s.kind) THEN tried
                  ELSE [tried EXCEPT !.at = "raised"]
    /\ UNCHANGED trainVars

\* train.py lines 364-366: flush, then on to the checkpoint step
Flush ==
    /\ call.fn = "summary"
    /\ call.at = "scalars"
    /\ call.pending = <<>>
    /\ call' = [call EXCEPT !.at = "checkpoint"]
    /\ UNCHANGED trainVars

NextSummary == WriteGradients \/ AddScalar \/ Flush

SpecSummary == InitSummary /\ [][NextSummary]_vars

\* ------------------------------------------------------------------------
\* model.py: ForwardResult, _ForwardStepWrapper and forward_step, and
\* _TrainStep of train.py, which hands the loss to the training loop.
\* A Python value is a tensor, None, or a ForwardResult object; the object
\* holds the numbers of its three components, 0 standing for None
Tensor(k) == [type |-> "Tensor", id |-> k, fields |-> <<>>]

PyNone == [type |-> "NoneType", id |-> 0, fields |-> <<>>]

Object(o, t, l) == [type |-> "ForwardResult", id |-> 0, fields |-> <<o, t, l>>]

Component(obj, i) == IF obj.fields[i] = 0 THEN PyNone ELSE Tensor(obj.fields[i])

Tensors == {Tensor(1), Tensor(2)}

Fields == {"outputs", "targets", "loss"}

Keywords == Fields \cup {"mask"}

\* what a step function can return: a dict, a tuple, or anything else
Dicts ==
    {[shape |-> "dict", keys |-> ks, kw |-> kw, items |-> <<>>] :
        ks \in SUBSET Keywords,
        kw \in [Keywords -> Tensors \cup {PyNone}]}

DictResults == {r \in Dicts : \A k \in Keywords : (r.kw[k] = PyNone) <=> (k \notin r.keys)}

MaxTuple == 4

TupleResults ==
    {[shape |-> "tuple", keys |-> {}, kw |-> [k \in Keywords |-> PyNone], items |-> q] :
        q \in UNION {[1..n -> Tensors] : n \in 0..MaxTuple}}

Other(v) == [shape |-> "other", keys |-> {}, kw |-> [k \in Keywords |-> PyNone],
             items |-> <<v>>]

Objects == {Object(o, t, l) : o \in 1..2, t \in 0..2, l \in 0..2}

OtherResults == {Other(v) : v \in Tensors \cup {PyNone} \cup Objects}

\* model.py lines 19-23: the constructor called with keyword arguments and
\* with positional arguments; a call it rejects raises TypeError
Raised(e) == [status |-> e, outputs |-> PyNone, targets |-> PyNone, loss |-> PyNone]

ForwardResultKw(keys, kw) ==
    IF "outputs" \in keys /\ keys \subseteq Fields
      THEN [status |-> "ok", outputs |-> kw["outputs"],
            targets |-> IF "targets" \in keys THEN kw["targets"] ELSE PyNone,
            loss |-> IF "loss" \in keys THEN kw["loss"] ELSE PyNone]
      ELSE Raised("TypeError")

ForwardResultArgsSwapped(a) ==
    IF Len(a) \in 1..3
      THEN [status |-> "ok", outputs |-> a[1],
            targets |-> IF Len(a) >= 3 THEN a[3] ELSE PyNone,
            loss |-> IF Len(a) >= 2 THEN a[2] ELSE PyNone]
      ELSE Raised("TypeError")

ForwardResultArgs(a) ==
    IF Len(a) \in 1..3
      THEN [status |-> "ok", outputs |-> a[1],
            targets |-> IF Len(a) >= 2 THEN a[2] ELSE PyNone,
            loss |-> IF Len(a) >= 3 THEN a[3] ELSE PyNone]
      ELSE Raised("TypeError")

\* the value a result that is neither a dict nor a tuple consists of
Value(r) == r.items[1]

\* model.py lines 62-71
ForwardStepWrapper(r) ==
    IF r.shape = "dict" THEN ForwardResultKw(r.keys, r.kw)
    ELSE IF r.shape # "tuple" THEN ForwardResultArgs(<<Value(r)>>)
    ELSE ForwardResultArgs(r.items)

\* model.py lines 77-107: what step_func of forward_step returns; the model
\* outputs are tensor 1, targets_getter(batch) tensor 2, the criterion value
\* tensor 3 and the post-processed outputs tensor 4
ModelOutputs == 1

Targets == 2

CriterionValue == 3

PostProcessed == 4

Helpers == [targets_getter : BOOLEAN, criterion : BOOLEAN, outputs_postprocess : BOOLEAN]

step_func(h) ==
    Object(IF h.outputs_postprocess THEN PostProcessed ELSE ModelOutputs,
           IF h.targets_getter THEN Targets ELSE 0,
           IF h.criterion THEN CriterionValue ELSE 0)

NoHelper == [targets_getter |-> FALSE, criterion |-> FALSE, outputs_postprocess |-> FALSE]

NotCalled == Raised("none")

\* a step function of the caller's about to return r, or the step object of
\* forward_step about to run its step_func
Returned(by, h, r) ==
    call = [fn |-> "forward", at |-> "returned", by |-> by, helper |-> h,
            r |-> r, result |-> NotCalled, last_result |-> NotCalled,
            loss |-> PyNone]

InitForward ==
    /\ NoTrain
    /\ \/ \E r \in DictResults \cup TupleResults \cup OtherResults :
             Returned("caller", NoHelper, r)
       \/ \E h \in Helpers : Returned("forward_step", h, Other(step_func(h)))

\* model.py lines 62-71: the adapter invoked on (model, batch)
Adapt ==
    /\ call.fn = "forward"
    /\ call.at = "returned"
    /\ call' = [call EXCEPT !.result = ForwardStepWrapper(call.r),
                            !.at = IF ForwardStepWrapper(call.r).status = "ok"
                                     THEN "adapted" ELSE "raised"]
    /\ UNCHANGED trainVars

\* train.py lines 99-101: _TrainStep.__call__ keeps the result and returns
\* its loss to the loop
TrainStep ==
    /\ call.fn = "forward"
    /\ call.at = "adapted"
    /\ call' = [call EXCEPT !.last_result = call.result,
                            !.loss = call.result.loss,
                            !.at = "backward"]
    /\ UNCHANGED trainVars

\* train.py lines 330-334: loss.backward(); None has no such method
Backward ==
    /\ call.fn = "forward"
    /\ call.at = "backward"
    /\ call' = [call EXCEPT !.at = IF call.loss = PyNone THEN "raised" ELSE "stepped",
                            !.result = IF call.loss = PyNone
                                         THEN Raised("AttributeError") ELSE call.result]
    /\ UNCHANGED trainVars

NextForward == Adapt \/ TrainStep \/ Backward

SpecForward == InitForward /\ [][NextForward]_vars

\* ------------------------------------------------------------------------
\* model.py lines 36-54: _CalcMetricsWrapper._normalize. A metrics value is
\* a tree: a dict, list, tuple or other iterable of values, or a leaf, which
\* is a numpy array, a tensor or a plain scalar. key is the key under which
\* the value sits in a dict; shape and data describe an array or tensor
Node(tag, shape, data, grad, kids) ==
    [tag |-> tag, key |-> "", shape |-> shape, data |-> data, grad |-> grad,
     kids |-> kids]

Scalar(v) == Node("scalar", <<>>, <<v>>, FALSE, <<>>)

Container(tag, kids) == Node(tag, <<>>, <<>>, FALSE, kids)

Shapes == {<<>>, <<1>>, <<1, 1>>, <<2>>, <<1, 2>>}

RECURSIVE Numel(_)
Numel(shape) == IF shape = <<>> THEN 1 ELSE Head(shape) * Numel(Tail(shape))

\* the elements of every array and tensor are 5, 6, ...
Elements(shape) == [j \in 1..Numel(shape) |-> 4 + j]

ArrayShapes == {<<1>>, <<2>>}

Leaves ==
    {Scalar(1)}
    \cup {Node("ndarray", s, Elements(s), FALSE, <<>>) : s \in ArrayShapes}
    \cup {Node("Tensor", s, Elements(s), TRUE, <<>>) : s \in Shapes}
    \cup {Node("Tensor", <<2>>, Elements(<<2>>), FALSE, <<>>)}

ContainerTags == {"dict", "list", "tuple", "iterable"}

MaxKids == 2

\* the keys of a dict's entries, in order
KeyOf(j) == IF j = 1 THEN "loss" ELSE "acc" \o ToString(j)

Keyed(tag, kids) ==
    [j \in 1..Len(kids) |-> IF tag = "dict" THEN [kids[j] EXCEPT !.key = KeyOf(j)]
                            ELSE kids[j]]

Flat ==
    {Container(tag, Keyed(tag, kids)) :
        tag \in ContainerTags, kids \in UNION {[1..n -> Leaves] : n \in 0..MaxKids}}

Nested == {Container(tag, Keyed(tag, <<kid>>)) : tag \in ContainerTags, kid \in Flat}

MetricsValues == Leaves \cup Flat \cup Nested

\* torch.squeeze on a shape
SqueezeFirst(shape) == IF shape # <<>> /\ Head(shape) = 1 THEN Tail(shape) ELSE shape

Squeeze(shape) == SelectSeq(shape, LAMBDA d : d # 1)

\* lines 45-48
TensorItemSqueezed(item) ==
    IF Len(SqueezeFirst(item.shape)) # 0
      THEN [item EXCEPT !.shape = SqueezeFirst(item.shape), !.grad = FALSE]
      ELSE [Scalar(item.data[1]) EXCEPT !.key = item.key]

TensorItem(item) ==
    IF Len(Squeeze(item.shape)) # 0
      THEN [item EXCEPT !.grad = FALSE]
      ELSE [Scalar(item.data[1]) EXCEPT !.key = item.key]

\* lines 37-52
RECURSIVE normalize_item(_)
normalize_item(item) ==
    LET values == [j \in 1..Len(item.kids) |->
                      [normalize_item(item.kids[j]) EXCEPT !.key = item.kids[j].key]]
    IN IF item.tag = "dict" THEN [item EXCEPT !.kids = values]
       ELSE IF item.tag = "list" THEN [item EXCEPT !.kids = values]
       ELSE IF item.tag = "ndarray" THEN item
       ELSE IF item.tag = "Tensor" THEN TensorItem(item)
       ELSE IF item.tag \in {"tuple", "iterable"}
         THEN [item EXCEPT !.tag = "tuple", !.kids = values]
       ELSE item

InitNormalize ==
    /\ NoTrain
    /\ \E metrics \in MetricsValues :
         call = [fn |-> "normalize", at |-> "given", metrics |-> metrics,
                 once |-> Scalar(0), twice |-> Scalar(0)]

\* lines 32-33 and 54
Normalize ==
    /\ call.fn = "normalize"
    /\ call.at = "given"
    /\ call' = [call EXCEPT !.at = "once", !.once = normalize_item(call.metrics)]
    /\ UNCHANGED trainVars

\* the result handed to _normalize once more
NormalizeAgain ==
    /\ call.fn = "normalize"
    /\ call.at = "once"
    /\ call' = [call EXCEPT !.at = "twice", !.twice = normalize_item(call.once)]
    /\ UNCHANGED trainVars

NextNormalize == Normalize \/ NormalizeAgain

SpecNormalize == InitNormalize /\ [][NextNormalize]_vars

\* ------------------------------------------------------------------ claims
HistorySteps == {RegexStep(checkpoints_history[i]) : i \in 1..Len(checkpoints_history)}

\* the n largest steps of S (all of S when it has fewer)
MostRecent(S, n) == {k \in S : Cardinality({j \in S : j > k}) < n}

AfterPruning == pc \notin {"start", "limit"}

\* C1 (retention invariant): once bootstrap pruning is done, and so after
\* every checkpoint-due epoch step, a run with retention limit L keeps a
\* history of at most L entries, and they are exactly the L most recent
\* checkpoints by step.
C1_Retention ==
    (AfterPruning /\ checkpoints_limit # None) =>
        /\ Len(checkpoints_history) <= checkpoints_limit
        /\ HistorySteps = MostRecent(existed, checkpoints_limit)

LastWritten == CkptName(written[Len(written)])

\* C2 (last alias): whenever train is not inside a checkpoint write and has
\* written a checkpoint, checkpoint_last.pth is a link that resolves to the
\* file written last; in particular the alias update that follows an
\* eviction has not failed.
C2_LastAlias ==
    (written # <<>> /\ ~InSave /\ pc # "killed") =>
        /\ error # "FileExistsError"
        /\ disk[checkpoint_last_name] = Symlink(LastWritten)
        /\ disk[LastWritten].kind = "file"

Partial(p) == disk[p].kind = "file" /\ ~disk[p].data.complete

\* C3 (atomic checkpoint write): when the process is terminated inside
\* save_checkpoint, no canonical name holds a partly written file and, once
\* bootstrapping has left an alias, checkpoint_last.pth still resolves to a
\* completely written checkpoint.
C3_AtomicWrite ==
    pc = "killed" =>
        /\ \A p \in FileNames : ~Partial(p)
        /\ candidates # <<>> =>
             /\ PathExists(disk, checkpoint_last_name)
             /\ disk[Resolve(disk, checkpoint_last_name)].data.complete

Resumed == args.checkpoint_path # NoPath

Last(q) == q[Len(q)]

\* one step of the best pointer: it moves exactly when a loss is offered
\* that is <= the loss it holds, and then to that offer
PromotionStep ==
    checkpoint_best_data # NoBest =>
        /\ checkpoint_best_data'[2] <= checkpoint_best_data[2]
        /\ candidates' = candidates => checkpoint_best_data' = checkpoint_best_data
        /\ candidates' # candidates =>
             checkpoint_best_data' =
                IF Last(candidates')[2] <= checkpoint_best_data[2]
                THEN Last(candidates') ELSE checkpoint_best_data

TieBreakOffers(b) == <<(<<0, b>>), <<1, 50>>, <<2, 30>>, <<3, 30>>, <<4, 40>>>>

TieBreakRun ==
    pc = "finished" /\ \E b \in args.train_dataset : b >= 50 /\ candidates = TieBreakOffers(b)

\* C4 (best-pointer monotonicity and tie-break): in every step of a run the
\* best pointer's loss never increases and an offered <<step, loss>> replaces
\* the pointer iff its loss is <= the pointer's; losses 5.0, 3.0, 3.0, 4.0
\* at steps 1..4 against a seed of loss >= 5.0 end with best = <<3, 3.0>>.
C4_BestMonotone ==
    /\ [][PromotionStep]_vars
    /\ [](TieBreakRun => checkpoint_best_data = <<3, 30>>)

C4_Witness == TieBreakRun /\ checkpoint_best_data = <<3, 30>>

EpochBoundary == pc \in {"loop", "finished"}

BestFile == disk[checkpoint_best_path]

\* C5 (best file consistency): at every epoch boundary after bootstrapping
\* checkpoint_best.pth is a complete file whose <<step, loss>> is the best
\* pointer and whose weights are those the model had at that step.
C5_BestFile ==
    EpochBoundary =>
        /\ BestFile.kind = "file"
        /\ BestFile.data.complete
        /\ <<BestFile.data.step, BestFile.data.loss>> = checkpoint_best_data
        /\ BestFile.data.state_dict = BestFile.data.step

C5_Witness ==
    /\ pc = "loop"
    /\ HasVal
    /\ source.best = "valid"
    /\ checkpoint_best_data[1] = 2
    /\ BestFile.kind = "file"
    /\ BestFile.data.step = 2
    /\ BestFile.data.state_dict = 2

\* C6 (policy path): in a cold-start run the loss the best pointer holds is
\* a training loss when no validation dataset is configured and a validation
\* loss when one is, from the step-0 seed on.
C6_PolicyPath ==
    (~Resumed /\ checkpoint_best_data # NoBest) =>
        source.best = IF HasVal THEN "valid" ELSE "train"

NumberedOnDisk == {k \in Steps : disk[CkptName(k)].kind = "file"}

EndToEnd ==
    /\ args = TrainArgs(3, {3, 5, 8, 10}, NoDataset, 2, 1, 1, NoPath)
    /\ pc = "finished"
    /\ Len(candidates) = 4
    /\ SubSeq(candidates, 2, 4) = <<(<<1, 10>>), <<2, 5>>, <<3, 8>>>>

BestHolds(step, l) ==
    /\ checkpoint_best_data = <<step, l>>
    /\ BestFile = RegularFile(CheckpointDict(step, l, step, BestFile.data.rng_state, TRUE))

\* C7 as stated (end-to-end scenario): the cold-start run with epochs=3,
\* checkpointPeriod=1, retentionLimit=2, no validation dataset and train
\* losses 1.0, 0.5, 0.8 ends with the numbered checkpoints {2, 3}, the alias
\* on step 3 and checkpoint_best holding step 2's state with loss 0.5.
C7_Scenario ==
    EndToEnd =>
        /\ NumberedOnDisk = {2, 3}
        /\ disk[checkpoint_last_name] = Symlink(CkptName(3))
        /\ BestHolds(2, 5)

\* C7 as amended: the same run ends with the numbered checkpoints {2, 3} and
\* the alias on step 3; checkpoint_best holds step 2's state with loss 0.5
\* when the step-0 baseline loss is >= 0.5, and the step-0 state with the
\* baseline loss when that loss is below 0.5.
C7_ScenarioAmended ==
    EndToEnd =>
        /\ NumberedOnDisk = {2, 3}
        /\ disk[checkpoint_last_name] = Symlink(CkptName(3))
        /\ IF candidates[1][2] >= 5 THEN BestHolds(2, 5)
                                    ELSE BestHolds(0, candidates[1][2])

C7_Witness ==
    /\ EndToEnd
    /\ candidates[1] = <<0, 10>>
    /\ NumberedOnDisk = {2, 3}
    /\ BestHolds(2, 5)

Ended == pc \in {"finished", "crashed"}

Increasing(q) == \A i \in 1..Len(q) - 1 : q[i] < q[i + 1]

\* C8 (resume epoch counter): a run resumed from step s runs no epoch-0
\* pass and writes no step-0 checkpoint; every checkpoint it writes carries
\* the count of completed epochs, in s+1..epochs and increasing; it ends
\* Finished after exactly max(0, epochs - s) epochs, having written nothing
\* when s >= epochs.
C8_ResumeCounter ==
    (Resumed /\ pc # "start") =>
        /\ <<"train", 0>> \notin summaries
        /\ \A i \in 1..Len(written) : written[i] \in (epoch_offset + 1)..epoch
        /\ Increasing(written)
        /\ Ended =>
             /\ pc = "finished"
             /\ epoch - epoch_offset = Max(0, args.epochs - epoch_offset)
             /\ epoch_offset >= args.epochs => written = <<>>

ResumedDict == initial[Resolve(initial, args.checkpoint_path)].data

\* C9 (resume best seeding): once a resumed run has seeded its best pointer
\* and before its first epoch, the pointer is the <<step, loss>> of the
\* checkpoint_best.pth the run found or, when there was none, that of the
\* resumed checkpoint, of which checkpoint_best.pth is then a copy.
C9_ResumeSeed ==
    (Resumed /\ pc \in {"loop", "finished", "crashed"} /\ epoch = epoch_offset) =>
        IF initial[checkpoint_best_path].kind = "file"
        THEN checkpoint_best_data = <<initial[checkpoint_best_path].data.step,
                                      initial[checkpoint_best_path].data.loss>>
        ELSE /\ checkpoint_best_data = <<ResumedDict.step, ResumedDict.loss>>
             /\ BestFile = RegularFile(ResumedDict)

\* C10 (resume reproducibility): the process resumed from the checkpoint of
\* the epoch after which the cold-start process was stopped enters its epoch
\* with the generator states the uninterrupted run would have entered it
\* with, and leaves the epoch's training pass with the same states too.
C10_Reproducible ==
    (run = 2 /\ epoch_offset > 0) =>
        /\ (pc = "loop" /\ epoch = epoch_offset) => rng = reference
        /\ (pc = "summary" /\ epoch = epoch_offset + 1) => rng = reference + TrainDraws

Loaded == call.fn = "checkpoint" /\ call.phase = "loaded"

Requested == SeqToSet(call.request.extra_modules)

Listed == SeqToSet(call.listed)

RoundTrip == Loaded /\ Requested \subseteq Listed

Restored(given, now, was) == now = (IF given THEN call.captured[was] ELSE call.before[was])

\* C11: a record written by save_checkpoint and read back by load_checkpoint
\* answers the saved (step, loss); the model, the optimizer, the amp scaler
\* and each listed extension module that the load is given are back in the
\* state they had at the save, and so is every captured random generator
\* when load_rnd_state is set; whatever the load is not given keeps the
\* state it had before the load, so a load given nothing, with
\* load_rnd_state false, changes nothing
C11_RoundTrip ==
    RoundTrip =>
        /\ call.result = [status |-> "ok", step |-> call.file.step, loss |-> call.file.loss]
        /\ Restored(call.request.model, call.live.model, "model")
        /\ Restored(call.request.optimizer, call.live.optimizer, "optimizer")
        /\ Restored(call.request.amp /\ call.file.amp # None, call.live.amp, "amp")
        /\ \A k \in ExtKeys :
             call.live.ext[k] = IF k \in Requested THEN call.captured.ext[k]
                                ELSE call.before.ext[k]
        /\ \A g \in {"python", "numpy", "torch"} :
             call.live.rng[g] = IF call.request.load_rnd_state THEN call.captured.rng[g]
                                ELSE call.before.rng[g]
        /\ call.live.rng.torch_cuda =
             IF call.request.load_rnd_state /\ call.request.cuda
                  /\ call.file.rng_state.torch_cuda # None
               THEN call.captured.rng.torch_cuda
               ELSE call.before.rng.torch_cuda
        /\ (call.request = NoRequest => call.live = call.before)

C11_Witness ==
    /\ RoundTrip
    /\ call.request.model /\ call.request.optimizer /\ call.request.load_rnd_state
    /\ call.request.cuda /\ call.file.rng_state.torch_cuda # None
    /\ Len(call.request.extra_modules) = 2
    /\ call.live = [call.captured EXCEPT !.amp = call.before.amp]
    /\ call.live # call.before

Missing == {k \in Requested : ExtState(call.file, k) = None}

\* C12: a load that requests an extension key the record does not hold fails
\* with KeyError when strict is set; when strict is not set it does not fail
\* and that extension's load_state_dict is handed None; the load train makes
\* to resume passes checkpoint_extra_modules and leaves strict unset, so it
\* behaves as the second case
C12_StrictExtensions ==
    Loaded =>
        /\ (call.request.strict /\ Missing # {}) => call.result.status = "KeyError"
        /\ ~call.request.strict =>
              /\ call.result.status = "ok"
              /\ \A k \in Missing : call.live.ext[k] = None
        /\ call.caller = "train" =>
              /\ call.result.status = "ok"
              /\ \A k \in Missing : call.live.ext[k] = None

C12_Witness ==
    /\ Loaded
    /\ call.caller = "train"
    /\ Missing # {}
    /\ Requested \ Missing # {}
    /\ \A k \in Missing : call.live.ext[k] = None /\ call.before.ext[k] # None

ColdBaselineDone == ~Resumed /\ pc = "loop" /\ epoch = 0

BeforeFirstEpoch == ~Resumed /\ epoch = 0 /\ pc # "loop"

\* C13: a cold start destroys what the checkpoint and summary directories
\* held; when its first training epoch is about to begin the directory holds
\* exactly one numbered checkpoint, of step 0, checkpoint_last.pth links to
\* it, the best pointer is <<0, baseline loss>> and checkpoint_best.pth is a
\* copy of that checkpoint, the weights are the untrained ones, and no step
\* up to there has changed the module's training/inference mode
C13_ColdStart ==
    /\ [](ColdBaselineDone =>
            /\ ListFiles(disk) = {CkptName(0), checkpoint_last_name, checkpoint_best_path}
            /\ NumberedOnDisk = {0}
            /\ disk[checkpoint_last_name] = Symlink(CkptName(0))
            /\ disk[CkptName(0)] = RegularFile(CheckpointDict(0, loss, 0, rng, TRUE))
            /\ checkpoint_best_data = <<0, loss>>
            /\ BestFile = disk[CkptName(0)]
            /\ model = 0
            /\ summaries \subseteq {<<"train", 0>>, <<"valid", 0>>})
    /\ [][BeforeFirstEpoch => training' = training]_vars

C13_Witness ==
    /\ ColdBaselineDone
    /\ HasVal
    /\ training
    /\ initial[CkptName(1)].kind = "file"
    /\ initial[CkptName(2)].kind = "file"
    /\ NumberedOnDisk = {0}
    /\ BestFile = disk[CkptName(0)]

Emitting == call.fn = "summary"

Emitted == Emitting /\ call.at = "checkpoint"

\* C14: a summary emission whose writer fails on any set of scalar writes
\* never raises; when it has gone on to the checkpoint step it has attempted
\* every scalar once, in order (each hyperparameter of each parameter group,
\* then each metric), and has recorded exactly those whose write did not fail
C14_SinkFailures ==
    Emitting =>
        /\ call.at # "raised"
        /\ \A j \in 1..Len(call.attempted) :
             call.attempted[j] = Scalars(call.param_groups, call.metrics)[j].label
        /\ call.at = "checkpoint" =>
             /\ Len(call.attempted) = Len(Scalars(call.param_groups, call.metrics))
             /\ call.recorded =
                   LabelsOf(Scalars(call.param_groups, call.metrics)) \ call.fails

C14_Witness ==
    /\ Emitted
    /\ Len(call.param_groups) = 2
    /\ call.fails = {"optimizer/0/lr", "loss"}
    /\ "optimizer/1/lr" \in call.recorded
    /\ "acc" \in call.recorded

Adapted == call.fn = "forward" /\ call.at \in {"adapted", "raised"} /\ call.last_result = NotCalled

Normalized(r) ==
    /\ call.result.status = "ok"
    /\ call.result.outputs =
         (IF r.shape = "dict" THEN r.kw["outputs"] ELSE r.items[1])
    /\ call.result.targets =
         (IF r.shape = "dict" THEN r.kw["targets"]
          ELSE IF Len(r.items) >= 2 THEN r.items[2] ELSE PyNone)
    /\ call.result.loss =
         (IF r.shape = "dict" THEN r.kw["loss"]
          ELSE IF Len(r.items) >= 3 THEN r.items[3] ELSE PyNone)

\* C15 as stated: the adapter turns a mapping with keys among
\* outputs/targets/loss, a tuple of one to three elements and a bare value
\* into a ForwardResult that holds the supplied components and None for the
\* rest
C15_Shapes ==
    Adapted =>
        LET r == call.r
        IN (\/ r.shape = "dict" /\ r.keys \subseteq Fields
            \/ r.shape = "tuple" /\ Len(r.items) \in 1..3
            \/ r.shape = "other") => Normalized(r)

\* C15 as amended: the same for a mapping that has the key outputs and whose
\* other keys are among targets and loss, a tuple of one to three elements,
\* and a value that is neither a mapping nor a tuple; a mapping without the
\* key outputs is rejected with TypeError
C15_ShapesAmended ==
    Adapted =>
        LET r == call.r
        IN /\ (\/ r.shape = "dict" /\ "outputs" \in r.keys /\ r.keys \subseteq Fields
               \/ r.shape = "tuple" /\ Len(r.items) \in 1..3
               \/ r.shape = "other") => Normalized(r)
           /\ (r.shape = "dict" /\ "outputs" \notin r.keys) =>
                  call.result.status = "TypeError"

C15_Witness ==
    /\ Adapted
    /\ call.r.shape = "dict"
    /\ call.r.keys = {"outputs", "loss"}
    /\ call.result = [status |-> "ok", outputs |-> Tensor(1), targets |-> PyNone,
                      loss |-> Tensor(2)]

ReturnsObject ==
    /\ call.fn = "forward"
    /\ call.at # "returned"
    /\ call.r.shape = "other"
    /\ Value(call.r).type = "ForwardResult"

\* C19: a step function that returns a ForwardResult, and so the step object
\* forward_step builds, comes through the adapter with its outputs, targets
\* and loss kept: invoked directly it yields the (post-processed) model
\* outputs, targets_getter(batch) and the criterion value; through
\* _TrainStep the loss handed to the loop is that criterion value, never None
\* when a criterion is given, and the backward pass does not fail on it
C19_StepHelper ==
    ReturnsObject =>
        LET v == Value(call.r)
            kept == [status |-> "ok", outputs |-> Component(v, 1),
                     targets |-> Component(v, 2), loss |-> Component(v, 3)]
        IN /\ call.at \in {"adapted", "backward", "stepped"} => call.result = kept
           /\ call.at \in {"backward", "stepped"} => call.loss = kept.loss
           /\ call.by = "forward_step" =>
                /\ v = step_func(call.helper)
                /\ (call.helper.criterion /\ call.at \in {"backward", "stepped"}) =>
                       call.loss = Tensor(CriterionValue)
                /\ call.helper.criterion => call.at # "raised"

NormalizedTwice == call.fn = "normalize" /\ call.at = "twice"

\* C16: normalizing a normalized metrics value changes nothing, for every
\* value built from dicts, lists, tuples, other iterables, arrays, one- and
\* many-element tensors and scalars
C16_Idempotent == NormalizedTwice => call.twice = call.once

C16_Witness ==
    /\ NormalizedTwice
    /\ call.metrics.tag = "dict"
    /\ Len(call.metrics.kids) = 1
    /\ call.metrics.kids[1].tag = "iterable"
    /\ Len(call.metrics.kids[1].kids) = 2
    /\ call.metrics.kids[1].kids[1] = Node("Tensor", <<1, 1>>, <<5>>, TRUE, <<>>)
    /\ call.metrics.kids[1].kids[2] = Node("Tensor", <<1, 2>>, <<5, 6>>, TRUE, <<>>)
    /\ call.once.kids[1].tag = "tuple"
    /\ call.once.kids[1].kids[1] = Scalar(5)
    /\ call.twice = call.once

NormalizedLeaf ==
    /\ call.fn = "normalize"
    /\ call.at # "given"
    /\ call.metrics.tag \in {"ndarray", "Tensor"}

\* C17: an array or tensor of one element normalizes to the plain scalar of
\* that element's value; one of n > 1 elements normalizes to a container of
\* the same kind, length and values
C17_Collapse ==
    NormalizedLeaf =>
        IF Len(call.metrics.data) = 1
          THEN call.once = Scalar(call.metrics.data[1])
          ELSE /\ call.once.tag = call.metrics.tag
               /\ call.once.shape = call.metrics.shape
               /\ call.once.data = call.metrics.data

NoDuplicates(q) == \A i \in 1..Len(q), j \in 1..Len(q) : q[i] = q[j] => i = j

Ascending(q) == \A i \in 1..Len(q) - 1 : RegexStep(q[i]) < RegexStep(q[i + 1])

EvictionFailed == pc = "crashed" /\ error = "FileNotFoundError" /\ epoch > epoch_offset

\* C20: at every epoch boundary of every run, resumed from whichever
\* checkpoint of the directory, the history names no file twice, is in
\* ascending order of step and names exactly the numbered checkpoints on
\* disk (checkpoint_last.pth and checkpoint_best.pth are not among them),
\* and no eviction is aimed at a file that is not there
C20_HistoryOnDisk ==
    /\ EpochBoundary =>
         /\ NoDuplicates(checkpoints_history)
         /\ Ascending(checkpoints_history)
         /\ HistorySteps = NumberedOnDisk
         /\ \A i \in 1..Len(checkpoints_history) : RegexMatch(checkpoints_history[i])
    /\ ~EvictionFailed

InEpoch == epoch > epoch_offset /\ pc \notin {"start", "limit", "seed_best", "baseline", "zero_best"}

EpochsDone == IF pc \in {"loop", "finished", "crashed"} THEN epoch ELSE epoch - 1

BestMoves ==
    \/ checkpoint_best_data' # checkpoint_best_data
    \/ disk'[checkpoint_best_path] # disk[checkpoint_best_path]

\* what an epoch's step may do to the best pointer and checkpoint_best.pth
PromotionFrame ==
    (InEpoch /\ BestMoves) =>
        IF HasVal
          THEN /\ Due(epoch, args.epochs_per_summary)
               /\ pc = "validate" \/ (InSave /\ retpc = "loop")
          ELSE /\ Due(epoch, args.epochs_per_checkpoint)
               /\ pc = "promote"

\* C18: every epoch e the run has been through has written checkpoint_e.pth
\* iff e is a multiple of epochs_per_checkpoint and a training summary of
\* step e iff e is a multiple of epochs_per_summary; without a validation
\* dataset the best pointer and checkpoint_best.pth change only in the
\* promotion that follows a due checkpoint, with one only in the validation
\* step of a summary-due epoch
C18_Cadence ==
    /\ [](\A e \in (epoch_offset + 1)..EpochsDone :
            /\ (\E i \in 1..Len(written) : written[i] = e)
                  <=> Due(e, args.epochs_per_checkpoint)
            /\ (<<"train", e>> \in summaries) <=> Due(e, args.epochs_per_summary))
    /\ [][PromotionFrame]_vars

====
